---- MODULE Spec2Model ----
(***************************************************************************)
(* A model of the document question-answering service:                     *)
(*   build_index.py  the build pass over the .docx files (SpecBuild)       *)
(*   app.py          search() and the /ask request handler (SpecAsk)       *)
(*                                                                         *)
(* Strings are sequences of one-character strings, so that strip, split,   *)
(* lower, join, slicing and the substring test are computed as Python      *)
(* computes them.  An optional value is <<>> (None) or <<v>>.              *)
(***************************************************************************)
EXTENDS Integers, Sequences, FiniteSets, TLC

VARIABLES
    \* ---- build_index.py ----
    bpc,              \* position of the build script
    doc_files,        \* the .docx names of the listing, in listing order
    fileIdx,          \* number of files of doc_files already opened
    doc,              \* the open document: [body]
    current_heading,
    pIdx, tIdx, rIdx, \* loop positions in doc.paragraphs, doc.tables, rels
    rels,             \* doc.part.rels.values(), read when the image loop starts
    chunk,            \* the text being embedded (chunk / table_text / image_context)
    metadata, embeddings, image_count,
    saved_index,      \* doc_index.faiss: <<>> or <<vectors>>
    saved_metadata,   \* doc_metadata.npy: <<>> or <<metadata>>
    nElems, nRels,    \* input consumed so far (bounds the input)
    \* ---- app.py ----
    apc,              \* position of the /ask handler (or of a call of search)
    loaded_metadata,  \* metadata = np.load("doc_metadata.npy")
    ntotal,           \* number of vectors of index = faiss.read_index(...)
    user_question,    \* None (<<>>) or <<question>>
    faiss_out,        \* (scores, indices) inside search, one record per slot,
                      \* kept when search is called on its own
    results,          \* what search returned
    context,
    answer,
    llm_calls,        \* calls of ollama.chat made for the request
    failed_at,        \* the step of the request that raised, or "none"
    responses         \* the responses returned for the request

bvars == <<bpc, doc_files, fileIdx, doc, current_heading, pIdx, tIdx, rIdx, rels,
           chunk, metadata, embeddings, image_count, saved_index, saved_metadata,
           nElems, nRels>>

avars == <<apc, loaded_metadata, ntotal, user_question, faiss_out, results, context,
           answer, llm_calls, failed_at, responses>>

vars == <<bvars, avars>>

\* ------------------------------------------------------------------
\* Bounds of the model
\* ------------------------------------------------------------------
MaxFiles == 2    \* entries of the docs folder listing
MaxBody  == 2    \* body elements (paragraphs, tables) over all documents
MaxRels  == 2    \* relationships over all documents
MaxMeta  == 2    \* entries of the loaded metadata store
MaxVec   == 2    \* vectors of the loaded index
MaxK     == 2    \* the small values of k search is called with
LongLen  == 1500 \* length of the long text chunk

\* ------------------------------------------------------------------
\* Python strings
\* ------------------------------------------------------------------
None == <<>>

IsSpace(c) == c \in {" ", "\n", "\t"}

RECURSIVE LStrip(_)
LStrip(s) == IF s # <<>> /\ IsSpace(Head(s)) THEN LStrip(Tail(s)) ELSE s

RECURSIVE RStrip(_)
RStrip(s) == IF s # <<>> /\ IsSpace(s[Len(s)]) THEN RStrip(SubSeq(s, 1, Len(s) - 1)) ELSE s

\* str.strip()
Strip(s) == RStrip(LStrip(s))

\* str.startswith(p)
StartsWith(s, p) == Len(s) >= Len(p) /\ SubSeq(s, 1, Len(p)) = p

\* str.endswith(p)
EndsWith(s, p) == Len(s) >= Len(p) /\ SubSeq(s, Len(s) - Len(p) + 1, Len(s)) = p

\* p in s, for strings
Contains(s, p) ==
    \E i \in 1..(Len(s) - Len(p) + 1) : SubSeq(s, i, i + Len(p) - 1) = p

\* sep.join(parts)
RECURSIVE Join(_, _)
Join(parts, sep) ==
    IF parts = <<>> THEN <<>>
    ELSE IF Len(parts) = 1 THEN parts[1]
    ELSE parts[1] \o sep \o Join(Tail(parts), sep)

\* str(n) for n >= 0
Digit(d) == CASE d = 0 -> "0" [] d = 1 -> "1" [] d = 2 -> "2" [] d = 3 -> "3"
              [] d = 4 -> "4" [] d = 5 -> "5" [] d = 6 -> "6" [] d = 7 -> "7"
              [] d = 8 -> "8" [] d = 9 -> "9"

RECURSIVE Str(_)
Str(n) == IF n < 10 THEN <<Digit(n)>> ELSE Str(n \div 10) \o <<Digit(n % 10)>>

\* All sequences over S of length at most n
SeqsUpTo(S, n) == UNION {[1..k -> S] : k \in 0..n}

\* ------------------------------------------------------------------
\* build_index.py: the embedder
\* ------------------------------------------------------------------
\* the number of whitespace characters of s
CountSpaces(s) == Cardinality({i \in 1..Len(s) : IsSpace(s[i])})

\* model.encode(text): a fixed function of the text (two integer features
\* stand for the float vector)
Encode(text) == <<Len(text), CountSpaces(text)>>

RECURSIVE Gcd(_, _)
Gcd(a, b) == IF b = 0 THEN a ELSE Gcd(b, a % b)

\* faiss.normalize_L2: scales a vector to the unit representative of its
\* direction (here: divides by the common factor); the zero vector is kept
NormalizeL2(v) ==
    LET g == Gcd(v[1], v[2])
    IN  IF g = 0 THEN v ELSE <<v[1] \div g, v[2] \div g>>

\* ------------------------------------------------------------------
\* build_index.py: the documents read
\* ------------------------------------------------------------------
DocxExt == <<".","d","o","c","x">>

DirEntries == { <<"a">> \o DocxExt, <<"b">> \o DocxExt, <<"n",".","t","x","t">> }

Listings == {l \in SeqsUpTo(DirEntries, MaxFiles) :
                \A i, j \in 1..Len(l) : i # j => l[i] # l[j]}

HeadingStyle == <<"H","e","a","d","i","n","g"," ","1">>
NormalStyle  == <<"N","o","r","m","a","l">>

Para(text, style) == [kind |-> "para", text |-> text, style |-> style]
Table(rows) == [kind |-> "table", rows |-> rows]

BodyElems ==
    { Para(<<" ">>, NormalStyle),
      Para(<<" ","a","b">>, NormalStyle),
      Para(<<"S","1"," ">>, HeadingStyle),
      Table(<< << <<"x">>, <<" ">> >>, << <<>> >>, << <<"y">>, <<"z"," ">> >> >>),
      Table(<< << <<" ">>, <<>> >> >>) }

Rel(ref, w, h, ok, text) ==
    [target_ref |-> ref, width |-> w, height |-> h, ocr_ok |-> ok, ocr |-> text]

ImageRef == <<"m","e","d","i","a","/","i","m","a","g","e","1",".","p","n","g">>
OtherRef == <<"s","t","y","l","e","s",".","x","m","l">>

RelElems ==
    { Rel(OtherRef, 0, 0, FALSE, <<>>),
      Rel(ImageRef, 199, 300, TRUE, <<"h","e","l","l","o">>),
      Rel(ImageRef, 300, 199, TRUE, <<"h","e","l","l","o">>),
      Rel(ImageRef, 200, 200, FALSE, <<>>),
      Rel(ImageRef, 200, 300, TRUE, <<" ","a","b","c","d","\n">>),
      Rel(ImageRef, 300, 200, TRUE, <<" ","h","e","l","l","o","\n">>) }

\* doc.paragraphs and doc.tables: the body's paragraphs, and its tables, each
\* in body order
IsPara(e) == e.kind = "para"
IsTable(e) == e.kind = "table"
Paragraphs(d) == SelectSeq(d.body, IsPara)
Tables(d) == SelectSeq(d.body, IsTable)

NoDoc == [body |-> <<>>]

General == <<"G","e","n","e","r","a","l">>
HeadingPrefix == <<"H","e","a","d","i","n","g">>
DiagramWords ==
    <<" ","d","i","a","g","r","a","m"," ","f","i","g","u","r","e"," ",
      "f","l","o","w","c","h","a","r","t"," ","a","r","c","h","i","t","e","c","t","u","r","e"," ",
      "i","l","l","u","s","t","r","a","t","i","o","n"," ">>

\* f"doc_image_{image_count}.png"
ImageName(n) == <<"d","o","c","_","i","m","a","g","e","_">> \o Str(n) \o <<".","p","n","g">>

TextEntry(content, file) ==
    [content |-> content, type |-> "text", image |-> None, source_doc |-> file]

\* faulty variant: the image chunk is stored without its file name
ImageEntryUnnamed(content, name, file) ==
    [content |-> content, type |-> "image", image |-> None, source_doc |-> file]

ImageEntry(content, name, file) ==
    [content |-> content, type |-> "image", image |-> <<name>>, source_doc |-> file]

\* ------------------------------------------------------------------
\* build_index.py: the script
\* ------------------------------------------------------------------
IsDocx(f) == EndsWith(f, DocxExt)

\* app.py is not running
AppOff ==
    /\ apc = "off"
    /\ loaded_metadata = <<>>
    /\ ntotal = 0
    /\ user_question = None
    /\ faiss_out = <<>>
    /\ results = <<>>
    /\ context = <<>>
    /\ answer = <<>>
    /\ llm_calls = 0
    /\ failed_at = "none"
    /\ responses = <<>>

InitBuild ==
    /\ AppOff
    /\ bpc = "check_docs"
    /\ doc_files \in {SelectSeq(l, IsDocx) : l \in Listings}
    /\ fileIdx = 0
    /\ doc = NoDoc
    /\ current_heading = General
    /\ pIdx = 1 /\ tIdx = 1 /\ rIdx = 1
    /\ rels = <<>>
    /\ chunk = <<>>
    /\ metadata = <<>>
    /\ embeddings = <<>>
    /\ image_count = 0
    /\ saved_index = None
    /\ saved_metadata = None
    /\ nElems = 0 /\ nRels = 0

\* if not doc_files: raise Exception("No DOCX files found")
CheckDocs ==
    /\ UNCHANGED avars
    /\ bpc = "check_docs"
    /\ bpc' = IF doc_files = <<>> THEN "failed" ELSE "files"
    /\ UNCHANGED <<doc_files, fileIdx, doc, current_heading, pIdx, tIdx, rIdx, rels,
                   chunk, metadata, embeddings, image_count, saved_index,
                   saved_metadata, nElems, nRels>>

\* for file in doc_files: doc = Document(doc_path); current_heading = "General"
OpenDoc ==
    /\ UNCHANGED avars
    /\ bpc = "files"
    /\ fileIdx < Len(doc_files)
    /\ \E body \in SeqsUpTo(BodyElems, MaxBody - nElems) :
          /\ doc' = [body |-> body]
          /\ nElems' = nElems + Len(body)
    /\ fileIdx' = fileIdx + 1
    /\ current_heading' = General
    /\ pIdx' = 1 /\ tIdx' = 1 /\ rIdx' = 1
    /\ rels' = <<>>
    /\ bpc' = "paragraphs"
    /\ UNCHANGED <<doc_files, chunk, metadata, embeddings, image_count,
                   saved_index, saved_metadata, nRels>>

file == doc_files[fileIdx]

\* one pass of: for para in doc.paragraphs (up to metadata.append)
ParaStep ==
    /\ UNCHANGED avars
    /\ bpc = "paragraphs"
    /\ pIdx <= Len(Paragraphs(doc))
    /\ LET para == Paragraphs(doc)[pIdx]
           text == Strip(para.text)
       IN  IF text = <<>>
           THEN /\ pIdx' = pIdx + 1
                /\ UNCHANGED <<bpc, current_heading, chunk, metadata>>
           ELSE IF StartsWith(para.style, HeadingPrefix)
           THEN /\ current_heading' = text
                /\ pIdx' = pIdx + 1
                /\ UNCHANGED <<bpc, chunk, metadata>>
           ELSE /\ chunk' = current_heading \o <<"\n">> \o text
                /\ metadata' = Append(metadata, TextEntry(chunk', file))
                /\ bpc' = "para_embed"
                /\ UNCHANGED <<current_heading, pIdx>>
    /\ UNCHANGED <<doc_files, fileIdx, doc, tIdx, rIdx, rels, embeddings, image_count,
                   saved_index, saved_metadata, nElems, nRels>>

ParasDone ==
    /\ UNCHANGED avars
    /\ bpc = "paragraphs"
    /\ pIdx > Len(Paragraphs(doc))
    /\ bpc' = "tables"
    /\ UNCHANGED <<doc_files, fileIdx, doc, current_heading, pIdx, tIdx, rIdx, rels,
                   chunk, metadata, embeddings, image_count, saved_index,
                   saved_metadata, nElems, nRels>>

\* row_data = [cell.text.strip() for cell in row.cells if cell.text.strip()]
RECURSIVE RowData(_)
RowData(cells) ==
    IF cells = <<>> THEN <<>>
    ELSE (IF Strip(Head(cells)) # <<>> THEN <<Strip(Head(cells))>> ELSE <<>>)
         \o RowData(Tail(cells))

\* table_rows: " | ".join(row_data) of every row with row_data non-empty
RECURSIVE TableRows(_)
TableRows(rows) ==
    IF rows = <<>> THEN <<>>
    ELSE (IF RowData(Head(rows)) # <<>>
          THEN <<Join(RowData(Head(rows)), <<" ","|"," ">>)>> ELSE <<>>)
         \o TableRows(Tail(rows))

\* the heading a table's chunk is given: the script's current_heading
TableHeading == current_heading

\* one pass of: for table in doc.tables (up to metadata.append)
TableStep ==
    /\ UNCHANGED avars
    /\ bpc = "tables"
    /\ tIdx <= Len(Tables(doc))
    /\ LET table_rows == TableRows(Tables(doc)[tIdx].rows)
       IN  IF table_rows # <<>>
           THEN /\ chunk' = TableHeading \o <<"\n">> \o Join(table_rows, <<"\n">>)
                /\ metadata' = Append(metadata, TextEntry(chunk', file))
                /\ bpc' = "table_embed"
                /\ UNCHANGED tIdx
           ELSE /\ tIdx' = tIdx + 1
                /\ UNCHANGED <<bpc, chunk, metadata>>
    /\ UNCHANGED <<doc_files, fileIdx, doc, current_heading, pIdx, rIdx, rels,
                   embeddings, image_count, saved_index, saved_metadata, nElems, nRels>>

\* for rel in doc.part.rels.values(): the relationships are read here
TablesDone ==
    /\ UNCHANGED avars
    /\ bpc = "tables"
    /\ tIdx > Len(Tables(doc))
    /\ \E rs \in SeqsUpTo(RelElems, MaxRels - nRels) :
          /\ rels' = rs
          /\ nRels' = nRels + Len(rs)
    /\ bpc' = "images"
    /\ UNCHANGED <<doc_files, fileIdx, doc, current_heading, pIdx, tIdx, rIdx,
                   chunk, metadata, embeddings, image_count, saved_index,
                   saved_metadata, nElems>>

\* the image is kept: both sides at least 200 pixels and at least 5
\* characters of stripped OCR text, a failed OCR counting as ""
OcrText(rel) == IF rel.ocr_ok THEN Strip(rel.ocr) ELSE <<>>

\* faulty variant: an image is dropped for its size only when both sides are small
KeepImageEitherSide(rel) ==
    /\ ~(rel.width < 200 /\ rel.height < 200)
    /\ ~(Len(OcrText(rel)) < 5)

KeepImage(rel) ==
    /\ ~(rel.width < 200 \/ rel.height < 200)
    /\ ~(Len(OcrText(rel)) < 5)

\* one pass of: for rel in doc.part.rels.values() (up to metadata.append)
ImageStep ==
    /\ UNCHANGED avars
    /\ bpc = "images"
    /\ rIdx <= Len(rels)
    /\ LET rel == rels[rIdx]
       IN  IF Contains(rel.target_ref, <<"i","m","a","g","e">>) /\ KeepImage(rel)
           THEN /\ chunk' = current_heading \o DiagramWords \o OcrText(rel)
                /\ metadata' = Append(metadata,
                                      ImageEntry(chunk', ImageName(image_count), file))
                /\ bpc' = "image_embed"
                /\ UNCHANGED rIdx
           ELSE /\ rIdx' = rIdx + 1
                /\ UNCHANGED <<bpc, chunk, metadata>>
    /\ UNCHANGED <<doc_files, fileIdx, doc, current_heading, pIdx, tIdx, rels,
                   embeddings, image_count, saved_index, saved_metadata, nElems, nRels>>

ImagesDone ==
    /\ UNCHANGED avars
    /\ bpc = "images"
    /\ rIdx > Len(rels)
    /\ bpc' = "files"
    /\ UNCHANGED <<doc_files, fileIdx, doc, current_heading, pIdx, tIdx, rIdx, rels,
                   chunk, metadata, embeddings, image_count, saved_index,
                   saved_metadata, nElems, nRels>>

\* faulty variant: the heading is embedded instead of the chunk
EmbeddingOfHeading(text) == Encode(current_heading)

\* what embeddings.append stores for the chunk
EmbeddingOf(text) == Encode(text)

\* emb = model.encode(chunk); embeddings.append(emb); then the rest of the pass
Embed ==
    /\ UNCHANGED avars
    /\ bpc \in {"para_embed", "table_embed", "image_embed"}
    /\ embeddings' = Append(embeddings, EmbeddingOf(chunk))
    /\ bpc' = CASE bpc = "para_embed" -> "paragraphs"
                [] bpc = "table_embed" -> "tables"
                [] bpc = "image_embed" -> "images"
    /\ pIdx' = IF bpc = "para_embed" THEN pIdx + 1 ELSE pIdx
    /\ tIdx' = IF bpc = "table_embed" THEN tIdx + 1 ELSE tIdx
    /\ rIdx' = IF bpc = "image_embed" THEN rIdx + 1 ELSE rIdx
    /\ image_count' = IF bpc = "image_embed" THEN image_count + 1 ELSE image_count
    /\ UNCHANGED <<doc_files, fileIdx, doc, current_heading, rels, chunk, metadata,
                   saved_index, saved_metadata, nElems, nRels>>

\* np.array(embeddings), normalize_L2, IndexFlatIP(dimension), add, write_index, np.save
\* (embeddings.shape[1] raises when there is no embedding)
Persist ==
    /\ UNCHANGED avars
    /\ bpc = "files"
    /\ fileIdx >= Len(doc_files)
    /\ IF embeddings = <<>>
       THEN /\ bpc' = "failed"
            /\ UNCHANGED <<saved_index, saved_metadata>>
       ELSE /\ saved_index' = <<[i \in 1..Len(embeddings) |-> NormalizeL2(embeddings[i])]>>
            /\ saved_metadata' = <<metadata>>
            /\ bpc' = "done"
    /\ UNCHANGED <<doc_files, fileIdx, doc, current_heading, pIdx, tIdx, rIdx, rels,
                   chunk, metadata, embeddings, image_count, nElems, nRels>>

NextBuild ==
    \/ CheckDocs
    \/ OpenDoc
    \/ ParaStep
    \/ ParasDone
    \/ TableStep
    \/ TablesDone
    \/ ImageStep
    \/ ImagesDone
    \/ Embed
    \/ Persist

SpecBuild == InitBuild /\ [][NextBuild]_vars

\* ------------------------------------------------------------------
\* app.py: configuration
\* ------------------------------------------------------------------
\* scores are counted in hundredths: 0.30 is 30
SIMILARITY_THRESHOLD == 30
TOP_K == 12
MAX_CONTEXT_LENGTH == 3000

\* the score faiss gives a slot it could not fill (-FLT_MAX for an inner
\* product index; its label is -1)
PadScore == -1000

PleaseAsk ==
    <<"P","l","e","a","s","e"," ","a","s","k"," ","a"," ","q","u","e","s","t","i","o","n",".">>
NotAvailable ==
    <<"T","h","i","s"," ","t","o","p","i","c"," ","i","s"," ","n","o","t"," ",
      "a","v","a","i","l","a","b","l","e"," ","i","n"," ","t","h","e"," ",
      "d","o","c","u","m","e","n","t",".">>
ErrorGenerating ==
    <<"E","r","r","o","r"," ","g","e","n","e","r","a","t","i","n","g"," ",
      "a","n","s","w","e","r",".">>
InternalError ==
    <<"I","n","t","e","r","n","a","l"," ","s","e","r","v","e","r"," ","e","r","r","o","r","."," ",
      "C","h","e","c","k"," ","t","e","r","m","i","n","a","l",".">>

\* jsonify({"answer": ..., "images": ...})
Response(ans, images) == [answer |-> ans, images |-> images]

\* ------------------------------------------------------------------
\* app.py: the loaded index and metadata, and the requests
\* ------------------------------------------------------------------
ShortText == <<"A","b"," ","c","d">>

\* "xy xy xy ..."
LongText ==
    [i \in 1..LongLen |-> IF i % 3 = 1 THEN "x" ELSE IF i % 3 = 2 THEN "y" ELSE " "]

StoreFile == <<"a">> \o DocxExt

StoreItems ==
    { TextEntry(ShortText, StoreFile),
      TextEntry(LongText, StoreFile),
      ImageEntry(<<"c","a","b"," ","Q">>, ImageName(0), StoreFile),
      ImageEntry(<<"C","D"," ","z","z">>, ImageName(1), StoreFile),
      [type |-> "text", image |-> None, source_doc |-> StoreFile],
      [content |-> ShortText, image |-> None, source_doc |-> StoreFile] }

\* the inner products of a query with the index's vectors, in hundredths
Scores == {29, 30, 45}

\* request.json.get("question") / request.form.get("question")
Questions == { None, << <<>> >>, << <<"q","?">> >> }

\* the model's replies: response["message"]["content"]
Replies == { <<" ","O","K",".","\n">>, NotAvailable \o <<"\n">> }

\* ------------------------------------------------------------------
\* app.py: search
\* ------------------------------------------------------------------
Min(a, b) == IF a < b THEN a ELSE b

\* index.search(query_vector, k) on an index of n vectors whose inner
\* products with the query are sc[0..n-1]: the min(n, k) best vectors by
\* descending score (ties in any order), then slots of label -1
IndexSearch(n, sc, k) ==
    LET m == Min(n, k)
        Best == {o \in [1..m -> 0..(n - 1)] :
                    /\ \A i, j \in 1..m : i # j => o[i] # o[j]
                    /\ \A i \in 1..(m - 1) : sc[o[i]] >= sc[o[i + 1]]
                    /\ \A v \in 0..(n - 1) :
                          (\A i \in 1..m : o[i] # v) => sc[v] <= sc[o[m]]}
    IN  {[j \in 1..k |-> IF j <= m THEN [idx |-> o[j], score |-> sc[o[j]]]
                         ELSE [idx |-> -1, score |-> PadScore]] : o \in Best}

\* faulty variant: a score equal to the threshold is discarded
PassesThresholdStrict(score) == score > SIMILARITY_THRESHOLD

\* faulty variant: the threshold test is missing
PassesThresholdAlways(score) == TRUE

\* if score >= SIMILARITY_THRESHOLD
PassesThreshold(score) == score >= SIMILARITY_THRESHOLD

\* if idx < len(metadata)
InRange(idx) == idx < Len(loaded_metadata)

\* if "content" in item and "type" in item
HasFields(item) == "content" \in DOMAIN item /\ "type" \in DOMAIN item

\* the loop of search over the slots from i on; metadata[idx] with a negative
\* idx counts from the end, and raises IndexError outside -len..len-1
RECURSIVE SearchLoop(_, _, _)
SearchLoop(cands, i, acc) ==
    IF i > Len(cands) THEN [raised |-> FALSE, results |-> acc]
    ELSE LET idx == cands[i].idx
             n == Len(loaded_metadata)
         IN  IF InRange(idx) /\ PassesThreshold(cands[i].score)
             THEN IF idx < -n \/ idx >= n
                  THEN [raised |-> TRUE, results |-> acc]
                  ELSE LET item == loaded_metadata[IF idx >= 0 THEN idx + 1 ELSE n + idx + 1]
                       IN  SearchLoop(cands, i + 1,
                                      IF HasFields(item) THEN Append(acc, item) ELSE acc)
             ELSE SearchLoop(cands, i + 1, acc)

\* search(query, k), given what index.search returned for the query
search(cands) == SearchLoop(cands, 1, <<>>)

\* ------------------------------------------------------------------
\* app.py: the /ask handler
\* ------------------------------------------------------------------
\* build_index.py is not running
BuildOff ==
    /\ bpc = "off"
    /\ doc_files = <<>>
    /\ fileIdx = 0
    /\ doc = NoDoc
    /\ current_heading = General
    /\ pIdx = 1 /\ tIdx = 1 /\ rIdx = 1
    /\ rels = <<>>
    /\ chunk = <<>>
    /\ metadata = <<>>
    /\ embeddings = <<>>
    /\ image_count = 0
    /\ saved_index = None
    /\ saved_metadata = None
    /\ nElems = 0 /\ nRels = 0

InitApp ==
    /\ BuildOff
    /\ apc = "idle"
    /\ loaded_metadata \in SeqsUpTo(StoreItems, MaxMeta)
    /\ ntotal \in 0..MaxVec
    /\ user_question = None
    /\ faiss_out = <<>>
    /\ results = <<>>
    /\ context = <<>>
    /\ answer = <<>>
    /\ llm_calls = 0
    /\ failed_at = "none"
    /\ responses = <<>>

\* Python truth of an optional string
Truthy(opt) == opt # None /\ opt[1] # <<>>

\* faulty variant: the inner except clause is missing
ErrorResponseOuterOnly(step) == Response(InternalError, <<>>)

\* the except clauses: the inner one around the ollama.chat call, the outer
\* one around the whole handler
ErrorResponse(step) ==
    IF step = "llm" THEN Response(ErrorGenerating, <<>>)
    ELSE Response(InternalError, <<>>)

\* text_chunks: the contents of the results of type "text"
RECURSIVE TextChunks(_)
TextChunks(rs) ==
    IF rs = <<>> THEN <<>>
    ELSE (IF "type" \in DOMAIN Head(rs) /\ Head(rs).type = "text"
          THEN <<Head(rs).content>> ELSE <<>>)
         \o TextChunks(Tail(rs))

\* faulty variant: the test for an empty text_chunks is missing
NoTextChunksIgnored(text_chunks) == FALSE

\* if len(text_chunks) == 0
NoTextChunks(text_chunks) == Len(text_chunks) = 0

\* faulty variant: the context is not cut
TruncateNothing(s) == s

\* context[:MAX_CONTEXT_LENGTH]
Truncate(s) == SubSeq(s, 1, Min(Len(s), MAX_CONTEXT_LENGTH))

\* "\n\n".join(text_chunks)[:MAX_CONTEXT_LENGTH]
BuildContext(text_chunks) == Truncate(Join(text_chunks, <<"\n","\n">>))

\* the request is read: lines 86-97
Receive ==
    /\ UNCHANGED bvars
    /\ apc \in {"idle", "responded"}
    /\ \E malformed \in BOOLEAN, q \in Questions :
          /\ user_question' = IF malformed THEN None ELSE q
          /\ failed_at' = IF malformed THEN "question" ELSE "none"
          /\ responses' = IF malformed THEN <<ErrorResponse("question")>>
                          ELSE IF ~Truthy(q) THEN <<Response(PleaseAsk, <<>>)>>
                          ELSE <<>>
          /\ apc' = IF malformed \/ ~Truthy(q) THEN "responded" ELSE "search"
    /\ faiss_out' = <<>>
    /\ results' = <<>>
    /\ context' = <<>>
    /\ answer' = <<>>
    /\ llm_calls' = 0
    /\ UNCHANGED <<loaded_metadata, ntotal>>

\* results = search(user_question): line 102.  Encoding the question or
\* searching the index may raise; what index.search returned is local to search
Retrieve ==
    /\ UNCHANGED bvars
    /\ apc = "search"
    /\ \E raises \in {"none", "encode", "index"} :
          IF raises # "none"
          THEN /\ failed_at' = raises
               /\ responses' = <<ErrorResponse(raises)>>
               /\ apc' = "responded"
               /\ UNCHANGED results
          ELSE \E sc \in [0..(ntotal - 1) -> Scores] :
               \E cands \in IndexSearch(ntotal, sc, TOP_K) :
                  LET r == search(cands)
                  IN  IF r.raised
                      THEN /\ failed_at' = "search"
                           /\ responses' = <<ErrorResponse("search")>>
                           /\ apc' = "responded"
                           /\ UNCHANGED results
                      ELSE /\ results' = r.results
                           /\ apc' = "context"
                           /\ UNCHANGED <<failed_at, responses>>
    /\ UNCHANGED <<loaded_metadata, ntotal, user_question, faiss_out, context, answer,
                   llm_calls>>

\* the two early returns and the context: lines 104-128.  The join raises
\* when a content is not a string
AssembleContext ==
    /\ UNCHANGED bvars
    /\ apc = "context"
    /\ LET text_chunks == TextChunks(results)
       IN  IF Len(results) = 0 \/ NoTextChunks(text_chunks)
           THEN /\ responses' = <<Response(NotAvailable, <<>>)>>
                /\ apc' = "responded"
                /\ UNCHANGED <<context, failed_at>>
           ELSE \E raises \in BOOLEAN :
                   IF raises
                   THEN /\ failed_at' = "context"
                        /\ responses' = <<ErrorResponse("context")>>
                        /\ apc' = "responded"
                        /\ UNCHANGED context
                   ELSE /\ context' = BuildContext(text_chunks)
                        /\ apc' = "llm"
                        /\ UNCHANGED <<responses, failed_at>>
    /\ UNCHANGED <<loaded_metadata, ntotal, user_question, faiss_out, results, answer,
                   llm_calls>>

\* the ollama.chat call and its except clause: lines 133-166
Generate ==
    /\ UNCHANGED bvars
    /\ apc = "llm"
    /\ llm_calls' = llm_calls + 1
    /\ \E reply \in {None} \cup {<<t>> : t \in Replies} :
          IF reply = None
          THEN /\ failed_at' = "llm"
               /\ responses' = <<ErrorResponse("llm")>>
               /\ apc' = "responded"
               /\ UNCHANGED answer
          ELSE /\ answer' = Strip(reply[1])
               /\ apc' = "images"
               /\ UNCHANGED <<failed_at, responses>>
    /\ UNCHANGED <<loaded_metadata, ntotal, user_question, faiss_out, results, context>>

\* r.get("image"), item.get("image"): present, not None, not ""
HasImage(item) == "image" \in DOMAIN item /\ Truthy(item.image)

IsType(item, t) == "type" \in DOMAIN item /\ item.type = t

StaticPath(name) == <<"/","s","t","a","t","i","c","/","i","m","a","g","e","s","/">> \o name

InSeq(x, seq) == \E i \in 1..Len(seq) : seq[i] = x

\* the images of the retrieved image chunks, without repeats: lines 175-181
RECURSIVE RetrievedImages(_, _)
RetrievedImages(rs, acc) ==
    IF rs = <<>> THEN acc
    ELSE LET r == Head(rs)
             path == StaticPath(r.image[1])
         IN  RetrievedImages(Tail(rs),
                 IF IsType(r, "image") /\ HasImage(r) /\ ~InSeq(path, acc)
                 THEN Append(acc, path) ELSE acc)

UpperCase == <<"A","B","C","D","E","F","G","H","I","J","K","L","M",
               "N","O","P","Q","R","S","T","U","V","W","X","Y","Z">>
LowerCase == <<"a","b","c","d","e","f","g","h","i","j","k","l","m",
               "n","o","p","q","r","s","t","u","v","w","x","y","z">>
UpperSet == {UpperCase[i] : i \in 1..Len(UpperCase)}

\* str.lower()
Lower(s) ==
    [i \in 1..Len(s) |->
        IF s[i] \in UpperSet
        THEN LowerCase[CHOOSE k \in 1..Len(UpperCase) : UpperCase[k] = s[i]]
        ELSE s[i]]

\* str.split(): the places where a word of s starts, and the word that starts at i
WordStarts(s) == {i \in 1..Len(s) : ~IsSpace(s[i]) /\ (i = 1 \/ IsSpace(s[i - 1]))}

WordAt(s, i) ==
    SubSeq(s, i, CHOOSE j \in i..Len(s) :
                     /\ (j = Len(s) \/ IsSpace(s[j + 1]))
                     /\ \A m \in i..j : ~IsSpace(s[m]))

\* any(w in text for w in context_words)
AnyWordIn(text, ctx) == \E i \in WordStarts(ctx) : Contains(text, WordAt(ctx, i))

\* the backup image search over the whole metadata: lines 186-199
RECURSIVE BackupImages(_, _)
BackupImages(items, lowctx) ==
    IF items = <<>> THEN <<>>
    ELSE LET item == Head(items)
             text == Lower(IF "content" \in DOMAIN item THEN item.content ELSE <<>>)
         IN  (IF IsType(item, "image") /\ AnyWordIn(text, lowctx) /\ HasImage(item)
              THEN <<StaticPath(item.image[1])>> ELSE <<>>)
             \o BackupImages(Tail(items), lowctx)

\* image_list: lines 172-199
ImageList(rs, ctx) ==
    LET image_list == RetrievedImages(rs, <<>>)
    IN  IF Len(image_list) = 0 THEN BackupImages(loaded_metadata, Lower(ctx))
        ELSE image_list

\* the images are collected and the answer returned: lines 172-207
AttachImages ==
    /\ UNCHANGED bvars
    /\ apc = "images"
    /\ \E raises \in BOOLEAN :
          IF raises
          THEN /\ failed_at' = "images"
               /\ responses' = <<ErrorResponse("images")>>
          ELSE /\ responses' = <<Response(answer, ImageList(results, context))>>
               /\ UNCHANGED failed_at
    /\ apc' = "responded"
    /\ UNCHANGED <<loaded_metadata, ntotal, user_question, faiss_out, results, context,
                   answer, llm_calls>>

NextAsk ==
    \/ Receive
    \/ Retrieve
    \/ AssembleContext
    \/ Generate
    \/ AttachImages

SpecAsk == InitApp /\ [][NextAsk]_vars

\* search called on its own, with a small k or with the default
SearchCall ==
    /\ UNCHANGED bvars
    /\ apc = "idle"
    /\ \E k \in (1..MaxK) \cup {TOP_K} :
       \E sc \in [0..(ntotal - 1) -> Scores] :
       \E cands \in IndexSearch(ntotal, sc, k) :
          LET r == search(cands)
          IN  /\ faiss_out' = cands
              /\ results' = r.results
              /\ apc' = IF r.raised THEN "raised" ELSE "returned"
    /\ UNCHANGED <<loaded_metadata, ntotal, user_question, context, answer, llm_calls,
                   failed_at, responses>>

NextSearch == SearchCall

SpecSearch == InitApp /\ [][NextSearch]_vars

\* ------------------------------------------------------------------
\* Properties of the build (SpecBuild)
\* ------------------------------------------------------------------
EntryWellFormed(e) ==
    /\ (e.type = "image") <=> (e.image # None)
    /\ e.content # <<>>

\* C5: at every point of the build, and in the saved metadata, every entry
\* has type "image" exactly when its image field is not None, and a
\* non-empty content.
C5_EntriesWellFormed ==
    /\ \A i \in 1..Len(metadata) : EntryWellFormed(metadata[i])
    /\ saved_metadata # None =>
          \A i \in 1..Len(saved_metadata[1]) : EntryWellFormed(saved_metadata[1][i])

C5_Witness ==
    /\ bpc = "image_embed"
    /\ \E i, j \in 1..Len(metadata) :
          /\ metadata[i].type = "text" /\ metadata[i].image = None
          /\ metadata[j].type = "image" /\ metadata[j].image # None

Emitting == bpc \in {"para_embed", "table_embed", "image_embed"}

\* C6: after each completed emission the embeddings and the metadata have the
\* same length and embeddings[i] is the embedding of metadata[i].content; the
\* saved index and the saved metadata exist together, have the same length,
\* and vector i of the index is the normalized embedding of entry i.
C6_VectorsAligned ==
    /\ ~Emitting =>
          /\ Len(embeddings) = Len(metadata)
          /\ \A i \in 1..Len(metadata) : embeddings[i] = Encode(metadata[i].content)
    /\ (saved_index = None) <=> (saved_metadata = None)
    /\ saved_index # None =>
          /\ Len(saved_index[1]) = Len(saved_metadata[1])
          /\ \A i \in 1..Len(saved_metadata[1]) :
                saved_index[1][i] = NormalizeL2(Encode(saved_metadata[1][i].content))

C6_Witness ==
    /\ bpc = "done"
    /\ Len(saved_index[1]) >= 3
    /\ \E i, j \in 1..Len(saved_index[1]) : saved_index[1][i] # saved_index[1][j]
    /\ \E i \in 1..Len(saved_metadata[1]) : saved_metadata[1][i].type = "image"
    /\ \E i \in 1..Len(saved_metadata[1]) : saved_metadata[1][i].type = "text"

IsImageRel(rel) == Contains(rel.target_ref, <<"i","m","a","g","e">>)

Informative(rel) ==
    /\ rel.width >= 200
    /\ rel.height >= 200
    /\ rel.ocr_ok
    /\ Len(Strip(rel.ocr)) >= 5

\* C7: the pass over an embedded image emits an image chunk exactly when both
\* sides are at least 200 pixels and OCR succeeds with at least 5 characters
\* of stripped text; otherwise (a failed OCR included) the image is dropped:
\* metadata, embeddings and image_count are unchanged and the loop goes on to
\* the next relationship.
C7_ImageRule ==
    [][ (bpc = "images" /\ rIdx <= Len(rels) /\ IsImageRel(rels[rIdx])) =>
          IF Informative(rels[rIdx])
          THEN /\ bpc' = "image_embed"
               /\ Len(metadata') = Len(metadata) + 1
               /\ metadata'[Len(metadata')].type = "image"
               /\ SubSeq(metadata', 1, Len(metadata)) = metadata
          ELSE /\ metadata' = metadata
               /\ embeddings' = embeddings
               /\ image_count' = image_count
               /\ bpc' = "images"
               /\ rIdx' = rIdx + 1 ]_vars

C7_Witness ==
    /\ bpc = "images"
    /\ rIdx = 3
    /\ IsImageRel(rels[1]) /\ rels[1].width >= 200 /\ rels[1].height >= 200
    /\ ~rels[1].ocr_ok
    /\ Informative(rels[2])
    /\ image_count = 1
    /\ metadata[Len(metadata)].type = "image"
    /\ \A i \in 1..(Len(metadata) - 1) : metadata[i].type = "text"

\* the heading that runs at the end of the first n elements of a body
RECURSIVE RunningHeading(_, _)
RunningHeading(body, n) ==
    IF n = 0 THEN General
    ELSE IF /\ body[n].kind = "para"
            /\ Strip(body[n].text) # <<>>
            /\ StartsWith(body[n].style, HeadingPrefix)
    THEN Strip(body[n].text)
    ELSE RunningHeading(body, n - 1)

\* the place in the body of its j-th table
TablePlace(body, j) ==
    CHOOSE p \in 1..Len(body) :
        /\ body[p].kind = "table"
        /\ Cardinality({q \in 1..p : body[q].kind = "table"}) = j

\* C9: the chunk of a table with a non-empty row is one text chunk made of
\* the heading most recently seen before the table in the document ("General"
\* if none), a newline and the rows.
C9_TableUnderItsHeading ==
    bpc = "table_embed" =>
        /\ metadata[Len(metadata)].type = "text"
        /\ metadata[Len(metadata)].content =
              RunningHeading(doc.body, TablePlace(doc.body, tIdx) - 1)
              \o <<"\n">> \o Join(TableRows(Tables(doc)[tIdx].rows), <<"\n">>)

\* ------------------------------------------------------------------
\* Properties of search (SpecSearch)
\* ------------------------------------------------------------------
\* a slot of index.search that search must answer with its metadata entry
Qualifies(c) ==
    /\ 0 <= c.idx /\ c.idx < Len(loaded_metadata)
    /\ c.score >= SIMILARITY_THRESHOLD
    /\ {"content", "type"} \subseteq DOMAIN loaded_metadata[c.idx + 1]

\* C3: search returns exactly the metadata entries of the candidates with a
\* score of at least the threshold and an entry holding content and type, in
\* the order of the candidates, which is by descending score.
C3_SearchFilters ==
    apc # "idle" =>
        LET kept == SelectSeq(faiss_out, Qualifies)
        IN  /\ apc = "returned"
            /\ results = [i \in 1..Len(kept) |-> loaded_metadata[kept[i].idx + 1]]
            /\ \A i, j \in 1..Len(kept) : i < j => kept[i].score >= kept[j].score

C3_Witness ==
    /\ apc = "returned"
    /\ Len(results) = 1
    /\ \E i \in 1..Len(faiss_out) :
          /\ faiss_out[i].idx >= 0
          /\ faiss_out[i].idx < Len(loaded_metadata)
          /\ faiss_out[i].score = SIMILARITY_THRESHOLD
          /\ results[1] = loaded_metadata[faiss_out[i].idx + 1]
    /\ \E i \in 1..Len(faiss_out) :
          /\ faiss_out[i].idx >= 0
          /\ faiss_out[i].idx < Len(loaded_metadata)
          /\ ~Qualifies(faiss_out[i])

RealSlots == {i \in 1..Len(faiss_out) :
                 0 <= faiss_out[i].idx /\ faiss_out[i].idx < Len(loaded_metadata)}

\* C10: a slot that index.search could not fill (label -1), or whose label
\* is out of range, contributes no chunk: search does not raise, returns no
\* more chunks than there are slots with a label in 0..len(metadata)-1, and
\* every chunk it returns is the metadata entry of such a slot.
C10_PaddingIgnored ==
    apc # "idle" =>
        /\ apc = "returned"
        /\ Len(results) <= Cardinality(RealSlots)
        /\ \A r \in 1..Len(results) :
              \E i \in RealSlots : results[r] = loaded_metadata[faiss_out[i].idx + 1]

C10_Witness ==
    /\ apc = "returned"
    /\ loaded_metadata # <<>>
    /\ {"content", "type"} \subseteq DOMAIN loaded_metadata[Len(loaded_metadata)]
    /\ \E i \in 1..Len(faiss_out) : faiss_out[i].idx = -1
    /\ Len(results) = 1
    /\ results[1] # loaded_metadata[Len(loaded_metadata)]

\* ------------------------------------------------------------------
\* Properties of the /ask handler (SpecAsk)
\* ------------------------------------------------------------------
SearchReturned ==
    /\ Truthy(user_question)
    /\ apc # "search"
    /\ failed_at \notin {"question", "encode", "index", "search"}

NoTextAmong(rs) == \A i \in 1..Len(rs) : rs[i].type # "text"

\* C1: for a non-empty question, when search returned no chunk, or no chunk
\* of type "text", the response is the "not available" answer with no image
\* and ollama.chat is not called.
C1_NoTextNoAnswer ==
    (SearchReturned /\ NoTextAmong(results)) =>
        /\ llm_calls = 0
        /\ apc \in {"context", "responded"}
        /\ apc = "responded" => responses = <<Response(NotAvailable, <<>>)>>

C1_Witness ==
    /\ apc = "responded"
    /\ SearchReturned
    /\ results # <<>>
    /\ \A i \in 1..Len(results) : results[i].type = "image"

\* C2: a request ends with exactly one response {answer, images}, and none
\* is returned before; a failure of the ollama.chat call gives "Error
\* generating answer." with no image, a failure anywhere else gives "Internal
\* server error. Check terminal." with no image; these two answers and the
\* "not available" answer differ; images come only with a generated answer.
C2_OneResponse ==
    /\ apc = "responded" =>
          /\ Len(responses) = 1
          /\ DOMAIN responses[1] = {"answer", "images"}
    /\ apc # "responded" => responses = <<>> /\ failed_at = "none"
    /\ failed_at = "llm" =>
          apc = "responded" /\ responses = <<[answer |-> ErrorGenerating, images |-> <<>>]>>
    /\ failed_at \notin {"none", "llm"} =>
          apc = "responded" /\ responses = <<[answer |-> InternalError, images |-> <<>>]>>
    /\ ErrorGenerating # InternalError
    /\ ErrorGenerating # NotAvailable
    /\ InternalError # NotAvailable
    /\ (apc = "responded" /\ responses[1].images # <<>>) =>
          /\ failed_at = "none"
          /\ llm_calls = 1
          /\ responses[1].answer = answer

C2_Witness ==
    /\ apc = "responded"
    /\ failed_at = "llm"
    /\ llm_calls = 1
    /\ responses[1].answer = ErrorGenerating

\* the contents of the text chunks among rs, in order
RECURSIVE TextContents(_)
TextContents(rs) ==
    IF rs = <<>> THEN <<>>
    ELSE IF Head(rs).type = "text" THEN <<Head(rs).content>> \o TextContents(Tail(rs))
    ELSE TextContents(Tail(rs))

Joined(rs) == Join(TextContents(rs), <<"\n","\n">>)

\* C4: the context handed to ollama.chat is the first MAX_CONTEXT_LENGTH
\* characters of the text chunks' contents joined by a blank line in
\* retrieval order: never longer than MAX_CONTEXT_LENGTH, and exactly that
\* long when the joined text is longer.
C4_ContextCut ==
    (apc = "llm" \/ llm_calls > 0) =>
        /\ Len(context) <= MAX_CONTEXT_LENGTH
        /\ Len(context) = Min(Len(Joined(results)), MAX_CONTEXT_LENGTH)
        /\ \A i \in 1..Len(context) : context[i] = Joined(results)[i]

C4_Witness ==
    /\ apc = "llm"
    /\ Len(Joined(results)) > MAX_CONTEXT_LENGTH
    /\ Len(context) = MAX_CONTEXT_LENGTH
    /\ Len(results) = 2
    /\ Len(context) < Len(results[1].content) + 2 + Len(results[2].content)
    /\ Len(context) > Len(results[1].content) + 2

\* the words of a string, as str.split() gives them
Words(s) == {WordAt(s, i) : i \in WordStarts(s)}

SharesWord(caption, ctx) == Words(Lower(caption)) \cap Words(Lower(ctx)) # {}

\* the images of the image chunks of items whose caption shares a word with ctx
RECURSIVE ImagesSharingWord(_, _)
ImagesSharingWord(items, ctx) ==
    IF items = <<>> THEN <<>>
    ELSE (IF /\ IsType(Head(items), "image")
             /\ "content" \in DOMAIN Head(items)
             /\ SharesWord(Head(items).content, ctx)
          THEN <<StaticPath(Head(items).image[1])>> ELSE <<>>)
         \o ImagesSharingWord(Tail(items), ctx)

\* C8: when an answer was generated and no image chunk was retrieved, the
\* images returned are those of the image chunks of the whole metadata whose
\* caption shares a whitespace-delimited word, compared without case, with
\* the context, in metadata order.
C8_BackupByWord ==
    (/\ apc = "responded"
     /\ failed_at = "none"
     /\ llm_calls = 1
     /\ \A i \in 1..Len(results) : results[i].type # "image") =>
        responses[1].images = ImagesSharingWord(loaded_metadata, context)

====
